---------------------------- MODULE Spec2Model ----------------------------
(***************************************************************************)
(* A model of spring/exporter.go: the Exporter that scrapes a JSON metrics *)
(* endpoint and republishes the values as Prometheus measurements.         *)
(*                                                                         *)
(* Strings that the program inspects character by character (namespace,    *)
(* payload keys, metric names, help texts) are sequences of code points.   *)
(* Strings that it only passes on (URI, credentials) are TLA+ strings.     *)
(***************************************************************************)
EXTENDS Integers, Sequences, FiniteSets, TLC

(***************************************************************************)
(* Bounds of the model.                                                    *)
(***************************************************************************)
\* number of goroutines that may call Collect concurrently
NumCallers == 2
\* largest number of members of a JSON object in a response body
MaxMembers == 2
\* longest input string of the keyToSnake specification
MaxLen == 3

Callers == 1..NumCallers

(***************************************************************************)
(* Strings as sequences of code points.                                    *)
(***************************************************************************)
\* "up"
UpName == <<117, 112>>
\* "response_duration"
DurationName ==
    <<114, 101, 115, 112, 111, 110, 115, 101, 95, 100, 117, 114, 97, 116,
      105, 111, 110>>
\* "Could spring endpoint be reached"
UpHelp ==
    <<67, 111, 117, 108, 100, 32, 115, 112, 114, 105, 110, 103, 32, 101,
      110, 100, 112, 111, 105, 110, 116, 32, 98, 101, 32, 114, 101, 97, 99,
      104, 101, 100>>
\* "How long the spring endpoint took to deliver the metrics"
DurationHelp ==
    <<72, 111, 119, 32, 108, 111, 110, 103, 32, 116, 104, 101, 32, 115, 112,
      114, 105, 110, 103, 32, 101, 110, 100, 112, 111, 105, 110, 116, 32,
      116, 111, 111, 107, 32, 116, 111, 32, 100, 101, 108, 105, 118, 101,
      114, 32, 116, 104, 101, 32, 109, 101, 116, 114, 105, 99, 115>>
\* "_"
Underscore == <<95>>

Letters == (97..122) \cup (65..90)
Digits == 48..57

(***************************************************************************)
(* keyRegExp = regexp.MustCompile("[^a-zA-Z0-9:_]"): the code points the   *)
(* negated class matches.                                                  *)
(***************************************************************************)
keyRegExp(c) == c \notin (Letters \cup Digits \cup {58, 95})

\* mutant: the replacement is "-"
keyToSnake_Dash(key) ==
    [i \in 1..Len(key) |-> IF keyRegExp(key[i]) THEN 45 ELSE key[i]]

\* mutant: the pattern is "[^a-zA-Z0-9:_]+", a run is replaced by one "_"
keyToSnake_Collapse(key) ==
    LET keep == {i \in 1..Len(key) :
                    ~(keyRegExp(key[i]) /\ i > 1 /\ keyRegExp(key[i - 1]))}
        nth(n) == CHOOSE i \in keep : Cardinality({j \in keep : j < i}) = n - 1
    IN [n \in 1..Cardinality(keep) |->
           IF keyRegExp(key[nth(n)]) THEN 95 ELSE key[nth(n)]]

\* keyRegExp.ReplaceAllString(key, "_"): every match is one code point, and
\* each match is replaced by the replacement string
keyToSnake(key) ==
    [i \in 1..Len(key) |-> IF keyRegExp(key[i]) THEN 95 ELSE key[i]]

(***************************************************************************)
(* The Prometheus client library, as far as the exporter uses it.          *)
(***************************************************************************)
\* prometheus.BuildFQName(namespace, "", name)
BuildFQName(namespace, name) ==
    IF name = <<>> THEN <<>>
    ELSE IF namespace # <<>> THEN namespace \o Underscore \o name
    ELSE name

\* a valid metric name: [a-zA-Z_:][a-zA-Z0-9_:]*
IsValidMetricName(s) ==
    /\ Len(s) > 0
    /\ s[1] \in Letters \cup {58, 95}
    /\ \A i \in 1..Len(s) : s[i] \in Letters \cup Digits \cup {58, 95}

\* prometheus.NewDesc(fqName, help, nil, nil): the descriptor carries an
\* error when the help string is empty or the name is not a metric name
NewDesc(fqName, help) ==
    [fqName |-> fqName,
     help   |-> help,
     err    |-> (help = <<>>) \/ ~IsValidMetricName(fqName)]

\* the metric prometheus.MustNewConstMetric(desc, valueType, value) returns
\* when it does not panic; it panics exactly when desc.err is set
ConstMetric(desc, valueType, value) ==
    [desc |-> desc, valueType |-> valueType, value |-> value]

(***************************************************************************)
(* NewExporter.                                                            *)
(***************************************************************************)
\* mutant: the duration descriptor is built with the name of up
NewExporter_Dup(namespace, insecure, uri, basicAuthUser, basicAuthPassword) ==
    [namespace         |-> namespace,
     URI               |-> uri,
     mutex             |-> "unlocked",
     basicAuthUser     |-> basicAuthUser,
     basicAuthPassword |-> basicAuthPassword,
     client            |-> [InsecureSkipVerify |-> insecure],
     up                |-> NewDesc(BuildFQName(namespace, UpName), UpHelp),
     duration          |-> NewDesc(BuildFQName(namespace, UpName),
                                   DurationHelp)]

NewExporter(namespace, insecure, uri, basicAuthUser, basicAuthPassword) ==
    [namespace         |-> namespace,
     URI               |-> uri,
     mutex             |-> "unlocked",
     basicAuthUser     |-> basicAuthUser,
     basicAuthPassword |-> basicAuthPassword,
     client            |-> [InsecureSkipVerify |-> insecure],
     up                |-> NewDesc(BuildFQName(namespace, UpName), UpHelp),
     duration          |-> NewDesc(BuildFQName(namespace, DurationName),
                                   DurationHelp)]

\* the configurations the exporter is constructed with: the namespaces "s"
\* and "", a well-formed URI and one without a protocol scheme, empty and
\* non-empty credentials
Configs ==
    { [namespace |-> <<115>>, insecure |-> FALSE,
       uri |-> "http://localhost:8080/metrics", user |-> "", password |-> ""],
      [namespace |-> <<>>, insecure |-> TRUE,
       uri |-> "http://localhost:8080/metrics", user |-> "admin",
       password |-> "secret"],
      [namespace |-> <<115>>, insecure |-> FALSE,
       uri |-> ":8080/metrics", user |-> "admin", password |-> ""] }

\* http.NewRequest(http.MethodGet, uri, nil) fails when the URI does not
\* parse (here: it has no protocol scheme)
NewRequestFails(uri) == uri = ":8080/metrics"

\* mutant: no Authorization header when the credentials are empty
Request_NoEmptyAuth(uri, user, password) ==
    [method |-> "GET", url |-> uri,
     authorization |->
         IF user = "" /\ password = ""
         THEN [scheme |-> "", user |-> "", password |-> ""]
         ELSE [scheme |-> "Basic", user |-> user, password |-> password]]

\* the request after req.SetBasicAuth(user, password)
Request(uri, user, password) ==
    [method |-> "GET", url |-> uri,
     authorization |-> [scheme |-> "Basic", user |-> user,
                        password |-> password]]

(***************************************************************************)
(* Response bodies: JSON documents, and text that is not JSON.             *)
(***************************************************************************)
\* the keys "", "a.", "a_" and "up"
Keys == { <<>>, <<97, 46>>, <<97, 95>>, <<117, 112>> }

\* the values of object members: the number 7, null, a string
MemberValues ==
    { [kind |-> "number", num |-> 7], [kind |-> "null", num |-> 0],
      [kind |-> "string", num |-> 0] }

Members == [key : Keys, val : MemberValues]

\* the keys in the order in which a document lists them
KeyList == << <<>>, <<97, 46>>, <<97, 95>>, <<117, 112>> >>

KeyRank(key) == CHOOSE i \in 1..Len(KeyList) : KeyList[i] = key

\* the objects of at most MaxMembers members, a key may occur more than
\* once; the members are listed by key, since the decoder's result depends
\* on their order only where a key is repeated
Objects ==
    { [kind |-> "object", members |-> ms] :
        ms \in { s \in UNION { [1..n -> Members] : n \in 0..MaxMembers } :
                   \A i \in 1..(Len(s) - 1) :
                       KeyRank(s[i].key) <= KeyRank(s[i + 1].key) } }

Bodies ==
    Objects \cup
    { [kind |-> k, members |-> <<>>] :
        k \in {"text", "null", "array", "string", "number"} }

\* the map after m[k] = v
MapSet(m, k, v) ==
    [x \in (DOMAIN m) \cup {k} |-> IF x = k THEN v ELSE m[x]]

\* decoding the members of an object into a map[string]float64, in the
\* order of the document: a number is stored, null stores the zero value,
\* any other value is a type error that is kept while decoding goes on
RECURSIVE DecodeMembers(_, _, _)
DecodeMembers(ms, m, failed) ==
    IF ms = <<>> THEN [err |-> failed, data |-> m]
    ELSE LET member == Head(ms)
             v == IF member.val.kind = "number" THEN member.val.num ELSE 0
         IN DecodeMembers(Tail(ms), MapSet(m, member.key, v),
                          failed \/ member.val.kind \notin {"number", "null"})

\* json.Unmarshal(body, &data) with data a nil map[string]float64
Unmarshal(body) ==
    CASE body.kind = "object" -> DecodeMembers(body.members, <<>>, FALSE)
      [] body.kind = "null"   -> [err |-> FALSE, data |-> <<>>]
      [] OTHER                -> [err |-> TRUE, data |-> <<>>]

(***************************************************************************)
(* State.                                                                  *)
(***************************************************************************)
VARIABLES
    e,        \* the Exporter
    pc,       \* where the Collect invocation of each caller stands
    req,      \* collect's req
    resp,     \* collect's resp (received: resp is not nil) and the err of
              \* client.Do (doErr: err is not nil)
    body,     \* collect's body
    data,     \* collect's data
    todo,     \* the keys of data the range loop has not visited yet
    err,      \* the error collect returns
    ch,       \* the measurements sent on the caller's channel, in order
    wire,     \* the requests the invocation handed to e.client.Do
    logged,   \* the number of e.logger.Errorf calls of the invocation
    receiving, \* whether a send on the caller's channel can proceed: its
              \* consumer is receiving
    described, \* the descriptors Describe has sent on its channel
    sKey,     \* keyToSnake specification: the input string
    sStep,    \* keyToSnake specification: applications made so far
    sOnce,    \* keyToSnake specification: keyToSnake(sKey)
    sTwice    \* keyToSnake specification: keyToSnake(keyToSnake(sKey))

collectVars == <<e, pc, req, resp, body, data, todo, err, ch, wire, logged,
                 receiving, described>>
snakeVars == <<sKey, sStep, sOnce, sTwice>>
vars == <<e, pc, req, resp, body, data, todo, err, ch, wire, logged,
          receiving, described,
          sKey, sStep, sOnce, sTwice>>

\* the values of the locals of an invocation that has not set them
NoRequest == Request("", "", "")
NoResponse == [received |-> FALSE, doErr |-> FALSE, StatusCode |-> 0,
               Body |-> "none"]
NoBody == [kind |-> "none", members |-> <<>>]

\* the status codes a response returned without an error may carry
StatusCodes == {200, 404}

\* the status code of a redirect response (302 Found)
RedirectCode == 302

\* the values time.Since(startTime).Seconds() may take
Elapsed == {0, 2}

Init ==
    /\ e \in { NewExporter(c.namespace, c.insecure, c.uri, c.user,
                           c.password) : c \in Configs }
    /\ pc = [p \in Callers |-> "idle"]
    /\ req = [p \in Callers |-> NoRequest]
    /\ resp = [p \in Callers |-> NoResponse]
    /\ body = [p \in Callers |-> NoBody]
    /\ data = [p \in Callers |-> <<>>]
    /\ todo = [p \in Callers |-> {}]
    /\ err = [p \in Callers |-> "pending"]
    /\ ch = [p \in Callers |-> <<>>]
    /\ wire = [p \in Callers |-> <<>>]
    /\ logged = [p \in Callers |-> 0]
    /\ receiving = [p \in Callers |-> TRUE]
    /\ described = <<>>
    /\ sKey = <<>>
    /\ sStep = 0
    /\ sOnce = <<>>
    /\ sTwice = <<>>

(***************************************************************************)
(* Collect and collect, one action per step of an invocation.              *)
(***************************************************************************)
\* a goroutine calls e.Collect(ch) with a channel of its own
CallCollect(p) ==
    /\ pc[p] = "idle"
    /\ pc' = [pc EXCEPT ![p] = "lock"]
    /\ UNCHANGED <<e, req, resp, body, data, todo, err, ch, wire, logged,
                 receiving, described>>
    /\ UNCHANGED snakeVars

\* mutant: Lock that does not wait for the mutex to be free
MutexLock_NoWait(p) ==
    /\ pc[p] = "lock"
    /\ e' = [e EXCEPT !.mutex = "locked"]
    /\ pc' = [pc EXCEPT ![p] = "newRequest"]
    /\ UNCHANGED <<req, resp, body, data, todo, err, ch, wire, logged,
                 receiving, described>>
    /\ UNCHANGED snakeVars

\* e.mutex.Lock(): blocks while the mutex is locked
MutexLock(p) ==
    /\ pc[p] = "lock"
    /\ e.mutex = "unlocked"
    /\ e' = [e EXCEPT !.mutex = "locked"]
    /\ pc' = [pc EXCEPT ![p] = "newRequest"]
    /\ UNCHANGED <<req, resp, body, data, todo, err, ch, wire, logged,
                 receiving, described>>
    /\ UNCHANGED snakeVars

\* mutant: the error of http.NewRequest is ignored
NewRequest_IgnoreErr(p) ==
    /\ pc[p] = "newRequest"
    /\ req' = [req EXCEPT ![p] =
                 Request(e.URI, e.basicAuthUser, e.basicAuthPassword)]
    /\ pc' = [pc EXCEPT ![p] = "do"]
    /\ UNCHANGED <<e, resp, body, data, todo, err, ch, wire, logged,
                 receiving, described>>
    /\ UNCHANGED snakeVars

\* req, err := http.NewRequest(...); if err != nil { return err };
\* req.SetBasicAuth(...)
NewRequest(p) ==
    /\ pc[p] = "newRequest"
    /\ IF NewRequestFails(e.URI)
       THEN /\ err' = [err EXCEPT ![p] = "construction"]
            /\ pc' = [pc EXCEPT ![p] = "collectReturned"]
            /\ req' = req
       ELSE /\ req' = [req EXCEPT ![p] =
                         Request(e.URI, e.basicAuthUser, e.basicAuthPassword)]
            /\ pc' = [pc EXCEPT ![p] = "do"]
            /\ err' = err
    /\ UNCHANGED <<e, resp, body, data, todo, ch, wire, logged,
                 receiving, described>>
    /\ UNCHANGED snakeVars

\* resp, err := e.client.Do(req): the request goes out once. The call
\* returns an error and no response (the transport failed), or a response
\* with some status code and no error, or, when the client gives up
\* following redirects (the default policy stops after 10), the last
\* redirect response with its body closed together with an error
ClientDo(p) ==
    /\ pc[p] = "do"
    /\ wire' = [wire EXCEPT ![p] = Append(@, req[p])]
    /\ \/ resp' = [resp EXCEPT ![p] =
                     [received |-> FALSE, doErr |-> TRUE, StatusCode |-> 0,
                      Body |-> "none"]]
       \/ \E code \in StatusCodes :
            resp' = [resp EXCEPT ![p] =
                       [received |-> TRUE, doErr |-> FALSE,
                        StatusCode |-> code, Body |-> "open"]]
       \/ resp' = [resp EXCEPT ![p] =
                     [received |-> TRUE, doErr |-> TRUE,
                      StatusCode |-> RedirectCode, Body |-> "closed"]]
    /\ pc' = [pc EXCEPT ![p] = "sendDuration"]
    /\ UNCHANGED <<e, req, body, data, todo, err, ch, logged,
                 receiving, described>>
    /\ UNCHANGED snakeVars

\* mutant: a send that does not wait for the consumer
Send_NoWait(p, desc, valueType, value, next) ==
    IF desc.err
    THEN /\ pc' = [pc EXCEPT ![p] = "panicking"]
         /\ ch' = ch
    ELSE /\ ch' = [ch EXCEPT ![p] =
                     Append(@, ConstMetric(desc, valueType, value))]
         /\ pc' = [pc EXCEPT ![p] = next]

\* ch <- prometheus.MustNewConstMetric(desc, valueType, value), then go on
\* at next; MustNewConstMetric panics when the descriptor carries an error;
\* the send waits until the consumer of the channel receives
Send(p, desc, valueType, value, next) ==
    IF desc.err
    THEN /\ pc' = [pc EXCEPT ![p] = "panicking"]
         /\ ch' = ch
    ELSE /\ receiving[p]
         /\ ch' = [ch EXCEPT ![p] =
                     Append(@, ConstMetric(desc, valueType, value))]
         /\ pc' = [pc EXCEPT ![p] = next]

\* mutant: the elapsed time is sent only after a response, behind up
SendDuration_AfterUp(p) ==
    /\ pc[p] = "sendDuration"
    /\ pc' = [pc EXCEPT ![p] = "sendUp"]
    /\ UNCHANGED <<e, req, resp, body, data, todo, err, ch, wire, logged,
                 receiving, described>>
    /\ UNCHANGED snakeVars

\* ch <- MustNewConstMetric(e.duration, GaugeValue, time.Since(...).Seconds())
SendDuration(p) ==
    /\ pc[p] = "sendDuration"
    /\ \E d \in Elapsed : Send(p, e.duration, "gauge", d, "sendUp")
    /\ UNCHANGED <<e, req, resp, body, data, todo, err, wire, logged,
                 receiving, described>>
    /\ UNCHANGED snakeVars

\* mutant: the transport error is returned without sending up 0
SendUp_NoUpOnError(p) ==
    /\ pc[p] = "sendUp"
    /\ IF resp[p].doErr
       THEN /\ pc' = [pc EXCEPT ![p] = "collectReturned"]
            /\ ch' = ch
            /\ err' = [err EXCEPT ![p] = "transport"]
       ELSE /\ Send(p, e.up, "gauge", 1, "readAll")
            /\ err' = err
    /\ UNCHANGED <<e, req, resp, body, data, todo, wire, logged,
                 receiving, described>>
    /\ UNCHANGED snakeVars

\* mutant: up is decided by resp, not by err
SendUp_ByResponse(p) ==
    /\ pc[p] = "sendUp"
    /\ IF ~resp[p].received
       THEN /\ Send(p, e.up, "gauge", 0, "collectReturned")
            /\ err' = [err EXCEPT ![p] =
                         IF e.up.err THEN @ ELSE "transport"]
       ELSE /\ Send(p, e.up, "gauge", 1, "readAll")
            /\ err' = err
    /\ UNCHANGED <<e, req, resp, body, data, todo, wire, logged,
                 receiving, described>>
    /\ UNCHANGED snakeVars

\* if err != nil { ch <- up 0; return fmt.Errorf(...) }; ch <- up 1
SendUp(p) ==
    /\ pc[p] = "sendUp"
    /\ IF resp[p].doErr
       THEN /\ Send(p, e.up, "gauge", 0, "collectReturned")
            /\ err' = [err EXCEPT ![p] =
                         IF e.up.err THEN @ ELSE "transport"]
       ELSE /\ Send(p, e.up, "gauge", 1, "readAll")
            /\ err' = err
    /\ UNCHANGED <<e, req, resp, body, data, todo, wire, logged,
                 receiving, described>>
    /\ UNCHANGED snakeVars

\* mutant: the status code is compared before the body is read
ReadAll_StatusFirst(p) ==
    /\ pc[p] = "readAll"
    /\ \/ /\ resp[p].StatusCode # 200
          /\ err' = [err EXCEPT ![p] = "status"]
          /\ resp' = [resp EXCEPT ![p].Body = "closed"]
          /\ pc' = [pc EXCEPT ![p] = "collectReturned"]
          /\ body' = body
       \/ /\ resp[p].StatusCode = 200
          /\ err' = [err EXCEPT ![p] = "bodyread"]
          /\ resp' = [resp EXCEPT ![p].Body = "closed"]
          /\ pc' = [pc EXCEPT ![p] = "collectReturned"]
          /\ body' = body
       \/ /\ resp[p].StatusCode = 200
          /\ \E b \in Bodies : body' = [body EXCEPT ![p] = b]
          /\ pc' = [pc EXCEPT ![p] = "checkStatus"]
          /\ UNCHANGED <<err, resp>>
    /\ UNCHANGED <<e, req, data, todo, ch, wire, logged, receiving, described>>
    /\ UNCHANGED snakeVars

\* defer resp.Body.Close(); body, readErr := ioutil.ReadAll(resp.Body);
\* if readErr != nil { return readErr }
ReadAll(p) ==
    /\ pc[p] = "readAll"
    /\ \/ /\ err' = [err EXCEPT ![p] = "bodyread"]
          /\ resp' = [resp EXCEPT ![p].Body = "closed"]
          /\ pc' = [pc EXCEPT ![p] = "collectReturned"]
          /\ body' = body
       \/ /\ \E b \in Bodies : body' = [body EXCEPT ![p] = b]
          /\ pc' = [pc EXCEPT ![p] = "checkStatus"]
          /\ UNCHANGED <<err, resp>>
    /\ UNCHANGED <<e, req, data, todo, ch, wire, logged, receiving, described>>
    /\ UNCHANGED snakeVars

\* mutant: the status code is not checked
CheckStatusCode_Skipped(p) ==
    /\ pc[p] = "checkStatus"
    /\ pc' = [pc EXCEPT ![p] = "unmarshal"]
    /\ UNCHANGED <<err, resp>>
    /\ UNCHANGED <<e, req, body, data, todo, ch, wire, logged,
                 receiving, described>>
    /\ UNCHANGED snakeVars

\* if resp.StatusCode != 200 { return fmt.Errorf(...) }
CheckStatusCode(p) ==
    /\ pc[p] = "checkStatus"
    /\ IF resp[p].StatusCode # 200
       THEN /\ err' = [err EXCEPT ![p] = "status"]
            /\ resp' = [resp EXCEPT ![p].Body = "closed"]
            /\ pc' = [pc EXCEPT ![p] = "collectReturned"]
       ELSE /\ pc' = [pc EXCEPT ![p] = "unmarshal"]
            /\ UNCHANGED <<err, resp>>
    /\ UNCHANGED <<e, req, body, data, todo, ch, wire, logged,
                 receiving, described>>
    /\ UNCHANGED snakeVars

\* var data jsonData; if err := json.Unmarshal(body, &data); err != nil
\* { return err }
JsonUnmarshal(p) ==
    /\ pc[p] = "unmarshal"
    /\ LET r == Unmarshal(body[p])
       IN IF r.err
          THEN /\ err' = [err EXCEPT ![p] = "parse"]
               /\ resp' = [resp EXCEPT ![p].Body = "closed"]
               /\ pc' = [pc EXCEPT ![p] = "collectReturned"]
               /\ UNCHANGED <<data, todo>>
          ELSE /\ data' = [data EXCEPT ![p] = r.data]
               /\ todo' = [todo EXCEPT ![p] = DOMAIN r.data]
               /\ pc' = [pc EXCEPT ![p] = "range"]
               /\ UNCHANGED <<err, resp>>
    /\ UNCHANGED <<e, req, body, ch, wire, logged, receiving, described>>
    /\ UNCHANGED snakeVars

\* the descriptor the loop body builds for a key
KeyDesc(namespace, key) ==
    NewDesc(BuildFQName(namespace, keyToSnake(key)), key)

\* one iteration of for key, value := range data, in any order of the keys
RangeData(p) ==
    /\ pc[p] = "range"
    /\ \E key \in todo[p] :
         /\ Send(p, KeyDesc(e.namespace, key), "untyped", data[p][key],
                 "range")
         /\ todo' = [todo EXCEPT ![p] = @ \ {key}]
    /\ UNCHANGED <<e, req, resp, body, data, err, wire, logged,
                 receiving, described>>
    /\ UNCHANGED snakeVars

\* the loop is over: return nil
ReturnNil(p) ==
    /\ pc[p] = "range"
    /\ todo[p] = {}
    /\ err' = [err EXCEPT ![p] = "nil"]
    /\ resp' = [resp EXCEPT ![p].Body = "closed"]
    /\ pc' = [pc EXCEPT ![p] = "collectReturned"]
    /\ UNCHANGED <<e, req, body, data, todo, ch, wire, logged,
                 receiving, described>>
    /\ UNCHANGED snakeVars

\* if err := e.collect(ch); err != nil { e.logger.Errorf(...) }
LogError(p) ==
    /\ pc[p] = "collectReturned"
    /\ logged' = [logged EXCEPT ![p] = IF err[p] # "nil" THEN @ + 1 ELSE @]
    /\ pc' = [pc EXCEPT ![p] = "unlock"]
    /\ UNCHANGED <<e, req, resp, body, data, todo, err, ch, wire, receiving,
                 described>>
    /\ UNCHANGED snakeVars

\* mutant: the measurements of the cycle stay in the channel
Leave_KeepChannel(p, to) ==
    /\ pc' = [pc EXCEPT ![p] = to]
    /\ req' = [req EXCEPT ![p] = NoRequest]
    /\ resp' = [resp EXCEPT ![p] = NoResponse]
    /\ body' = [body EXCEPT ![p] = NoBody]
    /\ data' = [data EXCEPT ![p] = <<>>]
    /\ todo' = [todo EXCEPT ![p] = {}]
    /\ err' = [err EXCEPT ![p] = "pending"]
    /\ ch' = ch
    /\ wire' = [wire EXCEPT ![p] = <<>>]
    /\ logged' = [logged EXCEPT ![p] = 0]
    /\ receiving' = [receiving EXCEPT ![p] = TRUE]
    /\ described' = described

\* what returning from Collect does to the locals of the invocation
Leave(p, to) ==
    /\ pc' = [pc EXCEPT ![p] = to]
    /\ req' = [req EXCEPT ![p] = NoRequest]
    /\ resp' = [resp EXCEPT ![p] = NoResponse]
    /\ body' = [body EXCEPT ![p] = NoBody]
    /\ data' = [data EXCEPT ![p] = <<>>]
    /\ todo' = [todo EXCEPT ![p] = {}]
    /\ err' = [err EXCEPT ![p] = "pending"]
    /\ ch' = [ch EXCEPT ![p] = <<>>]
    /\ wire' = [wire EXCEPT ![p] = <<>>]
    /\ logged' = [logged EXCEPT ![p] = 0]
    /\ receiving' = [receiving EXCEPT ![p] = TRUE]
    /\ described' = described

\* return: the deferred e.mutex.Unlock() runs and Collect returns
MutexUnlock(p) ==
    /\ pc[p] = "unlock"
    /\ e' = [e EXCEPT !.mutex = "unlocked"]
    /\ Leave(p, "idle")
    /\ UNCHANGED snakeVars

\* mutant: Unlock is not deferred, a panic leaves the mutex locked
PanicUnwind_NoUnlock(p) ==
    /\ pc[p] = "panicking"
    /\ e' = e
    /\ Leave(p, "panicked")
    /\ UNCHANGED snakeVars

\* a panic of MustNewConstMetric unwinds collect and Collect: the deferred
\* resp.Body.Close() and e.mutex.Unlock() run and the panic reaches the
\* caller of Collect
PanicUnwind(p) ==
    /\ pc[p] = "panicking"
    /\ e' = [e EXCEPT !.mutex = "unlocked"]
    /\ Leave(p, "panicked")
    /\ UNCHANGED snakeVars

Next ==
    \E p \in Callers :
        \/ CallCollect(p)
        \/ MutexLock(p)
        \/ NewRequest(p)
        \/ ClientDo(p)
        \/ SendDuration(p)
        \/ SendUp(p)
        \/ ReadAll(p)
        \/ CheckStatusCode(p)
        \/ JsonUnmarshal(p)
        \/ RangeData(p)
        \/ ReturnNil(p)
        \/ LogError(p)
        \/ MutexUnlock(p)
        \/ PanicUnwind(p)

Spec == Init /\ [][Next]_vars

(***************************************************************************)
(* The consumer of the channel Collect is called with.  It may stop        *)
(* receiving and resume at any time; the model lets it stop only where     *)
(* the invocation is about to send, since it matters nowhere else.         *)
(***************************************************************************)
\* where collect stands in front of a send, or of the loop of sends
SendPoints == {"sendDuration", "sendUp", "range"}

\* the consumer of the channel of p stops receiving
ConsumerStop(p) ==
    /\ pc[p] \in SendPoints
    /\ receiving[p]
    /\ receiving' = [receiving EXCEPT ![p] = FALSE]
    /\ UNCHANGED <<e, pc, req, resp, body, data, todo, err, ch, wire, logged,
                 described>>
    /\ UNCHANGED snakeVars

\* the consumer of the channel of p receives again
ConsumerResume(p) ==
    /\ ~receiving[p]
    /\ receiving' = [receiving EXCEPT ![p] = TRUE]
    /\ UNCHANGED <<e, pc, req, resp, body, data, todo, err, ch, wire, logged,
                 described>>
    /\ UNCHANGED snakeVars

NextStall ==
    \/ Next
    \/ \E p \in Callers : ConsumerStop(p)
    \/ \E p \in Callers : ConsumerResume(p)

SpecStall == Init /\ [][NextStall]_vars

\* a step of the invocation of p, from Lock to the end of Collect
CollectStep(p) ==
    \/ MutexLock(p)
    \/ NewRequest(p)
    \/ ClientDo(p)
    \/ SendDuration(p)
    \/ SendUp(p)
    \/ ReadAll(p)
    \/ CheckStatusCode(p)
    \/ JsonUnmarshal(p)
    \/ RangeData(p)
    \/ ReturnNil(p)
    \/ LogError(p)
    \/ MutexUnlock(p)
    \/ PanicUnwind(p)

\* the scheduling of the invocations: a goroutine that can run does run and
\* every HTTP call returns; a goroutine waiting in Lock gets the mutex if it
\* is released again and again (sync.Mutex hands the mutex to a waiter that
\* has been starved); a consumer that has stopped receives again, and a
\* send that can proceed again and again does proceed
SpecLive ==
    /\ Init
    /\ [][NextStall]_vars
    /\ \A p \in Callers : SF_vars(CollectStep(p))
    /\ \A p \in Callers : WF_vars(ConsumerResume(p))

(***************************************************************************)
(* Describe, which takes no lock and may run at any time.                  *)
(***************************************************************************)
\* mutant: Describe gives its descriptors away and leaves none behind
Describe_Moves ==
    /\ described = <<>>
    /\ described' = <<e.up, e.duration>>
    /\ e' = [e EXCEPT !.up = NewDesc(<<>>, <<>>),
                      !.duration = NewDesc(<<>>, <<>>)]
    /\ UNCHANGED <<pc, req, resp, body, data, todo, err, ch, wire, logged,
                 receiving>>
    /\ UNCHANGED snakeVars

\* ch <- e.up; ch <- e.duration
Describe ==
    /\ described = <<>>
    /\ described' = <<e.up, e.duration>>
    /\ UNCHANGED <<e, pc, req, resp, body, data, todo, err, ch, wire, logged,
                 receiving>>
    /\ UNCHANGED snakeVars

\* Describe returns, and may be called again
DescribeReturn ==
    /\ described # <<>>
    /\ described' = <<>>
    /\ UNCHANGED <<e, pc, req, resp, body, data, todo, err, ch, wire, logged,
                 receiving>>
    /\ UNCHANGED snakeVars

NextDescribe ==
    \/ Next
    \/ Describe
    \/ DescribeReturn

SpecDescribe == Init /\ [][NextDescribe]_vars

(***************************************************************************)
(* keyToSnake on its own: the input is any string of at most MaxLen code   *)
(* points of SnakeAlphabet, and keyToSnake is applied to it twice.         *)
(***************************************************************************)
\* a, Z, 0, ':', '_', '.', ' ', '-', e-acute
SnakeAlphabet == {97, 90, 48, 58, 95, 46, 32, 45, 233}

SnakeInputs == UNION { [1..n -> SnakeAlphabet] : n \in 0..MaxLen }

InitSnake ==
    /\ e = NewExporter(<<115>>, FALSE, "http://localhost:8080/metrics", "", "")
    /\ pc = [p \in Callers |-> "idle"]
    /\ req = [p \in Callers |-> NoRequest]
    /\ resp = [p \in Callers |-> NoResponse]
    /\ body = [p \in Callers |-> NoBody]
    /\ data = [p \in Callers |-> <<>>]
    /\ todo = [p \in Callers |-> {}]
    /\ err = [p \in Callers |-> "pending"]
    /\ ch = [p \in Callers |-> <<>>]
    /\ wire = [p \in Callers |-> <<>>]
    /\ logged = [p \in Callers |-> 0]
    /\ receiving = [p \in Callers |-> TRUE]
    /\ described = <<>>
    /\ sKey \in SnakeInputs
    /\ sStep = 0
    /\ sOnce = <<>>
    /\ sTwice = <<>>

\* snakeKey := keyToSnake(key)
SnakeOnce ==
    /\ sStep = 0
    /\ sOnce' = keyToSnake(sKey)
    /\ sStep' = 1
    /\ UNCHANGED <<sKey, sTwice>>
    /\ UNCHANGED collectVars

\* keyToSnake applied to its own result
SnakeTwice ==
    /\ sStep = 1
    /\ sTwice' = keyToSnake(sOnce)
    /\ sStep' = 2
    /\ UNCHANGED <<sKey, sOnce>>
    /\ UNCHANGED collectVars

NextSnake == SnakeOnce \/ SnakeTwice

SpecSnake == InitSnake /\ [][NextSnake]_vars

(***************************************************************************)
(* Properties.                                                             *)
(***************************************************************************)
\* the invocation of p is between e.mutex.Lock() and the deferred Unlock()
InCycle(p) == pc[p] \notin {"idle", "lock", "panicked"}

\* collect has returned and Collect has logged: only the deferred Unlock()
\* and the return of Collect are left
Returned(p) == pc[p] = "unlock"

\* the places in the channel of p of the up, the response_duration and the
\* payload measurements
UpSent(p) == {i \in 1..Len(ch[p]) : ch[p][i].desc = e.up}
DurationSent(p) == {i \in 1..Len(ch[p]) : ch[p][i].desc = e.duration}
PayloadSent(p) == {i \in 1..Len(ch[p]) : ch[p][i].valueType = "untyped"}

ErrorOutcomes == {"transport", "bodyread", "status", "parse"}

\* C1: at most one Collect invocation is between mutex acquisition and
\* release at any time: while one invocation fetches or emits, every other
\* one is outside Collect or blocked in Lock and has neither issued a request
\* nor sent a measurement
C1_MutualExclusion ==
    \A p, q \in Callers :
        (p # q /\ InCycle(p)) =>
            /\ ~InCycle(q)
            /\ wire[q] = <<>>
            /\ ch[q] = <<>>

\* C1 witness: one invocation is emitting payload while another is blocked
\* in Lock
C1_Witness ==
    \E p, q \in Callers :
        /\ p # q
        /\ pc[p] = "range"
        /\ PayloadSent(p) # {}
        /\ pc[q] = "lock"

\* C2 as stated: every completed Collect invocation, whatever its outcome,
\* has emitted exactly one up measurement (0 or 1) and exactly one
\* response_duration measurement
C2_Original ==
    \A p \in Callers :
        Returned(p) =>
            /\ Cardinality(UpSent(p)) = 1
            /\ \A i \in UpSent(p) : ch[p][i].value \in {0, 1}
            /\ Cardinality(DurationSent(p)) = 1

\* C2 amended: every Collect invocation that returns after its request was
\* constructed (transport, status, body read or parse error, or success)
\* has emitted exactly one up measurement (0 or 1) and exactly one
\* response_duration measurement; after a construction error it has emitted
\* neither
C2_ExactlyOneUpAndDuration ==
    \A p \in Callers :
        Returned(p) =>
            IF err[p] = "construction"
            THEN UpSent(p) = {} /\ DurationSent(p) = {}
            ELSE /\ Cardinality(UpSent(p)) = 1
                 /\ \A i \in UpSent(p) : ch[p][i].value \in {0, 1}
                 /\ Cardinality(DurationSent(p)) = 1

\* C2 witness: an invocation returns after a transport error with both
\* meta-measurements sent
C2_Witness ==
    \E p \in Callers :
        /\ Returned(p)
        /\ err[p] = "transport"
        /\ Len(ch[p]) = 2

C4_PayloadOnlyOnSuccess ==
    \A p \in Callers :
        /\ PayloadSent(p) # {} =>
              /\ resp[p].received
              /\ ~resp[p].doErr
              /\ resp[p].StatusCode = 200
              /\ body[p] # NoBody
              /\ ~Unmarshal(body[p]).err
              /\ err[p] \in {"pending", "nil"}
        /\ (pc[p] \in {"collectReturned", "unlock"}
              /\ err[p] \in ErrorOutcomes) =>
              /\ PayloadSent(p) = {}
              /\ UpSent(p) # {}
              /\ DurationSent(p) # {}

\* C4 witness: a cycle ended with a parse error on an object whose first
\* member decoded and whose second did not, with only the two
\* meta-measurements sent
C4_Witness ==
    \E p \in Callers :
        /\ Returned(p)
        /\ err[p] = "parse"
        /\ body[p].kind = "object"
        /\ Len(body[p].members) = 2
        /\ body[p].members[1].val.kind = "number"
        /\ Len(ch[p]) = 2

\* the cycle of p is over: collect has returned, or a panic is unwinding it
CycleEnded(p) == pc[p] \in {"collectReturned", "unlock", "panicking"}

\* C5 (the claim, which the code violates): once a cycle whose body parsed
\* is over, for every key k with value v of the parsed mapping a payload
\* measurement was sent with name namespace + "_" + keyToSnake(k), help k,
\* value v and kind untyped
C5_Claim ==
    \A p \in Callers :
        CycleEnded(p) =>
            \A k \in DOMAIN data[p] :
                \E i \in 1..Len(ch[p]) :
                    /\ ch[p][i].desc.fqName =
                           e.namespace \o Underscore \o keyToSnake(k)
                    /\ ch[p][i].desc.help = k
                    /\ ch[p][i].value = data[p][k]
                    /\ ch[p][i].valueType = "untyped"

\* the code points of [A-Za-z0-9:_]
AllowedCodePoints == (65..90) \cup (97..122) \cup (48..57) \cup {58, 95}

\* C6: keyToSnake is defined for every string, the empty one included; its
\* result holds only code points of [A-Za-z0-9:_]; applying it to its
\* result changes nothing; a string of allowed code points is returned
\* unchanged
C6_SnakeIdempotent ==
    /\ sStep >= 1 =>
          /\ \A i \in 1..Len(sOnce) : sOnce[i] \in AllowedCodePoints
          /\ (\A i \in 1..Len(sKey) : sKey[i] \in AllowedCodePoints) =>
                 sOnce = sKey
    /\ sStep = 2 => sTwice = sOnce

\* C6 witness: keyToSnake was applied twice to a string of three code
\* points that begins with "." and ends with a letter
C6_Witness ==
    /\ sStep = 2
    /\ Len(sKey) = 3
    /\ sKey[1] = 46
    /\ sKey[3] = 97
    /\ sOnce # sKey

\* the request the exporter is configured to make
ConfiguredRequest ==
    [method |-> "GET", url |-> e.URI,
     authorization |-> [scheme |-> "Basic", user |-> e.basicAuthUser,
                        password |-> e.basicAuthPassword]]

\* C7 as stated: every scrape cycle issues one GET to the configured URI
\* with basic-auth credentials, so that N invocations make N requests
C7_Original ==
    \A p \in Callers :
        Returned(p) => wire[p] = <<ConfiguredRequest>>

\* C7 amended: a cycle whose request construction succeeded issues exactly
\* one GET to the configured URI, with basic-auth credentials also when
\* they are empty, and never a second one after a failure; a cycle whose
\* request construction failed issues none; the measurements of an
\* invocation follow its own request
C7_OneGetPerConstructedCycle ==
    \A p \in Callers :
        /\ Len(wire[p]) <= 1
        /\ \A i \in 1..Len(wire[p]) : wire[p][i] = ConfiguredRequest
        /\ ch[p] # <<>> => Len(wire[p]) = 1
        /\ CycleEnded(p) =>
              Len(wire[p]) = IF err[p] = "construction" THEN 0 ELSE 1

\* C7 witness: a cycle that failed at the transport has made one request,
\* with empty credentials in its basic-auth header
C7_Witness ==
    \E p \in Callers :
        /\ Returned(p)
        /\ err[p] = "transport"
        /\ Len(wire[p]) = 1
        /\ wire[p][1].authorization =
               [scheme |-> "Basic", user |-> "", password |-> ""]

\* C8: when http.NewRequest fails, the cycle ends at once: no request is
\* issued, nothing is sent on the channel, the construction error is what
\* collect returns, Collect logs it once and is ready to unlock and return
C8_ConstructionAborts ==
    \A p \in Callers :
        /\ (NewRequestFails(e.URI) /\ InCycle(p) /\ pc[p] # "newRequest") =>
              err[p] = "construction"
        /\ err[p] = "construction" =>
              /\ NewRequestFails(e.URI)
              /\ pc[p] \in {"collectReturned", "unlock"}
              /\ wire[p] = <<>>
              /\ ch[p] = <<>>
              /\ logged[p] = IF Returned(p) THEN 1 ELSE 0
              /\ Returned(p) => ENABLED MutexUnlock(p)

\* C8 witness: a cycle with a malformed URI has returned and logged
C8_Witness ==
    \E p \in Callers :
        /\ Returned(p)
        /\ err[p] = "construction"
        /\ logged[p] = 1

\* C9: on every channel the first measurement is response_duration, the
\* second is up and all later ones are payload measurements
C9_EmissionOrder ==
    \A p \in Callers :
        \A i \in 1..Len(ch[p]) :
            /\ i = 1 => ch[p][i].desc = e.duration
            /\ i = 2 => ch[p][i].desc = e.up
            /\ i >= 3 => /\ ch[p][i].valueType = "untyped"
                         /\ ch[p][i].desc \notin {e.up, e.duration}
                         /\ i \notin UpSent(p) \cup DurationSent(p)

\* C9 witness: a cycle has sent both meta-measurements and two payload
\* measurements
C9_Witness ==
    \E p \in Callers :
        /\ Len(ch[p]) = 4
        /\ Cardinality(PayloadSent(p)) = 2

\* C10 (the claim, which the code violates): Collect always returns
\* normally to its caller, having logged exactly one error when the cycle
\* ended in an error and none when it succeeded
C10_Claim ==
    \A p \in Callers :
        /\ pc[p] \notin {"panicking", "panicked"}
        /\ Returned(p) => logged[p] = IF err[p] = "nil" THEN 0 ELSE 1

\* the places in the channel of p of the measurements with a given
\* fully-qualified name
NameSent(p, fqName) ==
    {i \in 1..Len(ch[p]) : ch[p][i].desc.fqName = fqName}

\* the keys of the parsed mapping of p whose measurement gets a given
\* fully-qualified name
KeysNamed(p, fqName) ==
    {k \in DOMAIN data[p] : KeyDesc(e.namespace, k).fqName = fqName}

\* C12 as stated: in a cycle that ends without error exactly one emitted
\* measurement has the fully-qualified name of up and exactly one has the
\* fully-qualified name of response_duration, whatever the payload
C12_Original ==
    \A p \in Callers :
        (Returned(p) /\ err[p] = "nil") =>
            /\ Cardinality(NameSent(p, e.up.fqName)) = 1
            /\ Cardinality(NameSent(p, e.duration.fqName)) = 1

\* C12 amended: in a cycle that ends without error exactly one emitted
\* measurement is the up meta-measurement and exactly one is the
\* response_duration meta-measurement; the measurements that carry the
\* name of up (of response_duration) are that one and one more for every
\* payload key that is sanitized to the same name
C12_OneMetaPerCycle ==
    \A p \in Callers :
        (Returned(p) /\ err[p] = "nil") =>
            /\ Cardinality(UpSent(p)) = 1
            /\ Cardinality(DurationSent(p)) = 1
            /\ UpSent(p) \subseteq NameSent(p, e.up.fqName)
            /\ DurationSent(p) \subseteq NameSent(p, e.duration.fqName)
            /\ Cardinality(NameSent(p, e.up.fqName)) =
                   1 + Cardinality(KeysNamed(p, e.up.fqName))
            /\ Cardinality(NameSent(p, e.duration.fqName)) =
                   1 + Cardinality(KeysNamed(p, e.duration.fqName))

\* C12 witness: a cycle ended without error whose payload had the key "up"
\* and another key: two of its four measurements carry the name of up
C12_Witness ==
    \E p \in Callers :
        /\ Returned(p)
        /\ err[p] = "nil"
        /\ Len(ch[p]) = 4
        /\ UpName \in DOMAIN data[p]
        /\ Cardinality(NameSent(p, e.up.fqName)) = 2

\* C13: the mutex is locked exactly while some invocation is between Lock
\* and the end of Collect: every way out of a cycle (return after success
\* or after any error, panic) leaves the mutex unlocked, and it is free
\* whenever no invocation is in progress
C13_MutexReleased ==
    /\ e.mutex = "locked" <=> \E p \in Callers : InCycle(p)
    /\ \A p \in Callers : pc[p] \in {"idle", "panicked"} =>
          \/ e.mutex = "unlocked"
          \/ \E q \in Callers : q # p /\ InCycle(q)

\* C13 witness: Collect was left by a panic, no invocation is in progress
\* and the mutex is free
C13_Witness ==
    /\ \E p \in Callers : pc[p] = "panicked"
    /\ \A q \in Callers : ~InCycle(q)
    /\ e.mutex = "unlocked"

\* C14 as stated: whenever client.Do returned a response whose status code
\* is not 200, the cycle returns the status-mismatch error, whatever the
\* outcome of reading the body, and has emitted no payload measurement
C14_Original ==
    \A p \in Callers :
        (Returned(p) /\ resp[p].received /\ ~resp[p].doErr
                     /\ resp[p].StatusCode # 200) =>
            /\ err[p] = "status"
            /\ PayloadSent(p) = {}

\* C14 amended: the status code is compared only after the body was read:
\* a cycle whose response has a status code other than 200 returns the
\* status-mismatch error when its body was read and the read error when
\* reading the body failed, and in both cases has emitted up = 1 and no
\* payload measurement
C14_StatusAfterBody ==
    \A p \in Callers :
        (Returned(p) /\ resp[p].received /\ ~resp[p].doErr
                     /\ resp[p].StatusCode # 200) =>
            /\ err[p] \in {"status", "bodyread"}
            /\ err[p] = "status" <=> body[p] # NoBody
            /\ PayloadSent(p) = {}
            /\ \A i \in UpSent(p) : ch[p][i].value = 1

\* C14 witness: a response with status 404 whose body could not be read:
\* the cycle returned the read error
C14_Witness ==
    \E p \in Callers :
        /\ Returned(p)
        /\ resp[p].received /\ ~resp[p].doErr
        /\ resp[p].StatusCode = 404
        /\ body[p] = NoBody
        /\ err[p] = "bodyread"
        /\ Len(ch[p]) = 2

\* C15: keyToSnake works code point by code point: its result has as many
\* code points as its argument, a code point of [A-Za-z0-9:_] stays where
\* it is, and every other code point is replaced, in place, by one "_", so
\* that a run of n such code points becomes n underscores
C15_PerCharacter ==
    sStep >= 1 =>
        /\ Len(sOnce) = Len(sKey)
        /\ \A i \in 1..Len(sKey) :
              sOnce[i] = IF sKey[i] \in AllowedCodePoints THEN sKey[i] ELSE 95

\* C15 witness: keyToSnake was applied to ". a", a run of two code points
\* outside the class followed by a letter, and returned "__a"
C15_Witness ==
    /\ sStep >= 1
    /\ sKey = <<46, 32, 97>>
    /\ sOnce = <<95, 95, 97>>

\* C16: a body received with status 200 is accepted only if it is a JSON
\* object all of whose member values are numbers: for every other body
\* (text that is not JSON, a null, array, string or number literal, an
\* object with a member whose value is not a number) the cycle returns the
\* parse error and has emitted no payload measurement
C16_Claim ==
    \A p \in Callers :
        LET numeric == /\ body[p].kind = "object"
                       /\ \A i \in 1..Len(body[p].members) :
                             body[p].members[i].val.kind = "number"
        IN (Returned(p) /\ resp[p].StatusCode = 200 /\ ~resp[p].doErr
                        /\ body[p] # NoBody) =>
               /\ err[p] = "nil" => numeric
               /\ ~numeric => (err[p] = "parse" /\ PayloadSent(p) = {})

\* C19: once a cycle whose body parsed is over, it has emitted as many
\* payload measurements as the parsed mapping has keys, one for each key,
\* also when two keys are sanitized to the same name or a key is sanitized
\* to the name of a meta-measurement, and nothing else but the two
\* meta-measurements; for the object {} these two are all it has emitted
C19_Claim ==
    \A p \in Callers :
        (CycleEnded(p) /\ (err[p] = "nil" \/ pc[p] = "panicking")) =>
            /\ Cardinality(PayloadSent(p)) = Cardinality(DOMAIN data[p])
            /\ Len(ch[p]) = 2 + Cardinality(DOMAIN data[p])

\* C17: what a cycle emits and returns is a function of the configuration
\* and of its own fetch (the result of client.Do, the status code, the
\* body): the error it returns is the one of its own fetch, its up value is
\* 0 exactly when its own client.Do failed, every payload measurement it has
\* emitted is one of its own body, all of them once it has returned, and
\* it has emitted nothing else; nothing is left over from an earlier cycle
C17_NoCarryOver ==
    \A p \in Callers :
        LET parsed == Unmarshal(body[p])
            outcome ==
                IF NewRequestFails(e.URI) THEN "construction"
                ELSE IF resp[p].doErr THEN "transport"
                ELSE IF body[p] = NoBody THEN "bodyread"
                ELSE IF resp[p].StatusCode # 200 THEN "status"
                ELSE IF parsed.err THEN "parse"
                ELSE "nil"
            expected ==
                IF outcome = "nil"
                THEN { ConstMetric(KeyDesc(e.namespace, k), "untyped",
                                   parsed.data[k]) : k \in DOMAIN parsed.data }
                ELSE {}
            payload == { ch[p][i] : i \in PayloadSent(p) }
        IN CycleEnded(p) =>
               /\ pc[p] # "panicking" => err[p] = outcome
               /\ payload \subseteq expected
               /\ Returned(p) => payload = expected
               /\ \A i \in UpSent(p) :
                     ch[p][i].value = IF resp[p].doErr THEN 0 ELSE 1
               /\ Cardinality(UpSent(p)) <= 1
               /\ Cardinality(DurationSent(p)) <= 1
               /\ Len(ch[p]) = Cardinality(UpSent(p))
                                 + Cardinality(DurationSent(p))
                                 + Cardinality(PayloadSent(p))

\* C17 witness: a cycle that failed after another invocation's cycle had
\* parsed a payload (and was left by a panic): it returned its own error
\* with up and response_duration and no payload measurement
C17_Witness ==
    \E p, q \in Callers :
        /\ pc[q] = "panicked"
        /\ Returned(p)
        /\ err[p] = "transport"
        /\ Len(ch[p]) = 2
        /\ \A i \in UpSent(p) : ch[p][i].value = 0

\* the invocation of p stands at a send that cannot proceed: the consumer
\* of its channel is not receiving (in the loop: whichever key comes next,
\* its measurement can be built and is to be sent)
BlockedOnSend(p) ==
    /\ ~receiving[p]
    /\ \/ pc[p] \in {"sendDuration", "sendUp"}
       \/ /\ pc[p] = "range"
          /\ todo[p] # {}
          /\ \A k \in todo[p] : ~KeyDesc(e.namespace, k).err

\* C20: from its fetch to the end of its cycle, and so at every send, an
\* invocation holds the mutex; while the consumer of its channel does not
\* receive, an invocation that stands at a send makes no step with the
\* mutex held, and no other invocation can acquire the mutex
C20_SendsUnderMutex ==
    \A p \in Callers :
        /\ (wire[p] # <<>> \/ ch[p] # <<>> \/ pc[p] \in SendPoints) =>
              /\ e.mutex = "locked"
              /\ InCycle(p)
              /\ \A q \in Callers \ {p} : ~InCycle(q)
        /\ BlockedOnSend(p) =>
              /\ e.mutex = "locked"
              /\ ~ENABLED SendDuration(p)
              /\ ~ENABLED SendUp(p)
              /\ ~ENABLED RangeData(p)
              /\ ~ENABLED ReturnNil(p)
              /\ \A q \in Callers : ~ENABLED MutexLock(q)

\* C20 witness: in the loop over the payload, after the two
\* meta-measurements, the consumer of one invocation has stopped receiving
\* while another invocation waits in Lock
C20_Witness ==
    \E p, q \in Callers :
        /\ p # q
        /\ pc[p] = "range"
        /\ BlockedOnSend(p)
        /\ Len(ch[p]) >= 2
        /\ pc[q] = "lock"
        /\ e.mutex = "locked"

\* C18: no step of Collect or of Describe changes a field of the Exporter
\* other than the mutex: the URI, the namespace, the credentials, the
\* client and the two descriptors stay as NewExporter set them
C18_TargetUnchanged ==
    [][[e' EXCEPT !.mutex = e.mutex] = e]_vars

\* C18 witness: Describe has sent the two descriptors, one Collect was left
\* by a panic and another has returned, and but for the mutex the Exporter
\* is as NewExporter returned it
C18_Witness ==
    /\ described = <<e.up, e.duration>>
    /\ \E p, q \in Callers : pc[p] = "panicked" /\ Returned(q)
    /\ e.mutex = "locked"
    /\ \E c \in Configs :
          [e EXCEPT !.mutex = "unlocked"] =
              NewExporter(c.namespace, c.insecure, c.uri, c.user, c.password)

\* the invocation of p waits in Lock while another cycle holds the mutex
WaitingForMutex(p) == pc[p] = "lock" /\ e.mutex = "locked"

\* C11: under fair scheduling, with HTTP calls that return and a consumer
\* that receives, an invocation that waits in Lock for another cycle to end
\* eventually has the mutex, has run a cycle of its own and has returned
\* from collect: unless its request could not be constructed, it has made
\* its own request and emitted its own up and response_duration
C11_Claim ==
    \A p \in Callers :
        WaitingForMutex(p) ~>
            /\ Returned(p)
            /\ err[p] # "construction" =>
                  /\ Len(wire[p]) = 1
                  /\ UpSent(p) # {}
                  /\ DurationSent(p) # {}

=============================================================================
